---- MODULE Spec2Model ----
(***************************************************************************)
(* Model of the request/response core of finance-go (src/finance.go):      *)
(* the backend registry (GetBackend / SetBackend / SetHTTPClient), the     *)
(* crumb handshake (getYahooCrumb) and the call executor                   *)
(* (BackendConfiguration.Call / NewRequest / Do).                          *)
(*                                                                         *)
(* Goroutines are the processes Procs.  Every goroutine runs a series of   *)
(* package operations; an operation that takes a lock or talks to the      *)
(* transport is split at the points where another goroutine can run.       *)
(***************************************************************************)
EXTENDS Integers, Sequences, FiniteSets, TLC

(* ------------------------------ bounds -------------------------------- *)

\* Number of goroutines using the package concurrently.
NumProcs == 2

\* Number of package operations started in one behaviour.
MaxOps == 3

\* The same, when the operations run one after the other.
SeqMaxOps == 3

\* Number of BackendConfiguration objects allocated in one behaviour.
MaxObjs == 3

\* Number of tokens in a path handed to NewRequest directly.
MaxPathLen == 2

(* ---------------------------- constants ------------------------------- *)

YFinBackend == "yahoo"

BATSBackend == "bats"

\* An identifier that is neither of the two supported ones.
OtherBackend == "other"

\* Strings the code takes apart are sequences of tokens: a token is one
\* character ("/", "?", "&", "%"), an opaque run of characters, or one
\* encoded query parameter <<key, value>>.  "%" stands for a percent sign
\* that starts no valid escape.
yFinURL == <<"https://query2.finance.yahoo.com">>

batsURL == << >>

\* The client built by init(), and one a caller may install instead.
InitClient == "client0"

CallerClient == "client1"

\* A base URL a caller may give to a configuration it builds itself.
CallerURL == <<"http://stub">>

\* What the stubbed or real transport can answer.
Statuses == {200, 400, 404}

Bodies == {"", "{\"x\":1}", "not found"}

\* Paths and query forms a caller passes to Call.
Paths == {<<"/", "quote">>, <<"quote">>, <<"/", "%">>}

Forms == {<< >>, << <<"symbols", "AAPL">> >>}

\* The ctx argument of Call and NewRequest: a nil pointer, a context that
\* is not cancelled when the call starts, one that is.
Contexts == {"nil", "live", "cancelled"}

\* Base URLs and paths for NewRequest called on a configuration the caller
\* built: with and without a trailing "/", empty, with a broken escape.
Bases == {yFinURL, batsURL, CallerURL, <<"http://stub", "/">>}

PathTokens == {"/", "quote", "%"}

PathInputs ==
    UNION {[1 .. n -> PathTokens] : n \in 0 .. MaxPathLen}

Procs == 1 .. NumProcs

Registered == {YFinBackend, BATSBackend}

BackendIds == {YFinBackend, BATSBackend, OtherBackend}

Clients == {InitClient, CallerClient}

\* The nil Backend / nil pointer.
Nil == 0

\* In the history, the mark of an identifier SetBackend was never called for.
NeverSet == 0 - 1

VARIABLES
    httpClient,   \* package variable httpClient
    heap,         \* the BackendConfiguration objects allocated so far; a
                  \* Backend value is an index into heap, or Nil
    backends,     \* package variable backends: the fields YFin and Bats
    mu,           \* backends.mu: number of read holders and the write holder
    yCrumb,       \* package variable yCrumb, a string header of two words
                  \* (ptr, len); it has no lock, and each store of a word
                  \* of it is one step
    proc,         \* per goroutine: the operation it runs, where, its locals
    ev,           \* history: the last exchange with the transport or return
                  \* of an operation: who, which step, the transport's
                  \* answer, and the goroutine's locals and results then
    hist          \* history: what has happened so far (never read by the code)

vars == <<httpClient, heap, backends, mu, yCrumb, proc, ev, hist>>

(* ------------------------------ helpers ------------------------------- *)

\* &BackendConfiguration{Type, URL, HTTPClient}
BackendConfiguration(type, url, client) ==
    [Type |-> type, URL |-> url, HTTPClient |-> client]

\* The base URL GetBackend gives to the default configuration of an id.
DefaultURL(id) == IF id = YFinBackend THEN yFinURL ELSE batsURL

\* A mutant of NewDefault: every default configuration gets a client of its
\* own instead of the shared session.
NewDefaultOwnClient(id, client, n) ==
    BackendConfiguration(id, DefaultURL(id), IF n = 0 THEN client ELSE CallerClient)

\* The configuration GetBackend constructs for id when n objects exist.
NewDefault(id, client, n) ==
    BackendConfiguration(id, DefaultURL(id), client)

(* ------------------------- strings and JSON --------------------------- *)

\* strings.HasPrefix(path, "/")
HasPrefix(path) == Len(path) > 0 /\ path[1] = "/"

\* A string of parameters joined by "&".
RECURSIVE Join(_)
Join(params) ==
    IF Len(params) = 0 THEN << >>
    ELSE IF Len(params) = 1 THEN <<params[1]>>
    ELSE <<params[1], "&">> \o Join(Tail(params))

\* form.Empty() and form.Encode() of a non-nil form.
FormEmpty(form) == Len(form) = 0

FormEncode(form) == Join(form)

\* The place of the first "?" of a string, or 0.
QueryAt(u) ==
    IF \E i \in 1 .. Len(u) : u[i] = "?"
    THEN CHOOSE i \in 1 .. Len(u) :
            u[i] = "?" /\ \A j \in 1 .. (i - 1) : u[j] # "?"
    ELSE 0

\* url.Parse: the part before the first "?" must hold no broken escape; the
\* query is kept raw.
ParseOK(u) ==
    LET q == QueryAt(u)
        n == IF q = 0 THEN Len(u) ELSE q - 1
    IN \A i \in 1 .. n : u[i] # "%"

ParseURL(u) ==
    LET q == QueryAt(u) IN
    IF q = 0 THEN [url |-> u, RawQuery |-> << >>]
    ELSE [url |-> SubSeq(u, 1, q - 1), RawQuery |-> SubSeq(u, q + 1, Len(u))]

\* req.URL.Query(): the parameters of the raw query, in order.
Query(raw) == SelectSeq(raw, LAMBDA t : t # "&")

\* The parameter keys of the model, in the order url.Values.Encode sorts them.
SortedKeys == <<"crumb", "symbols">>

\* url.Values.Encode(): sorted by key, the values of a key in their order.
RECURSIVE EncodeFrom(_, _)
EncodeFrom(params, k) ==
    IF k > Len(SortedKeys) THEN << >>
    ELSE SelectSeq(params, LAMBDA t : t[1] = SortedKeys[k])
            \o EncodeFrom(params, k + 1)

Encode(params) == Join(EncodeFrom(params, 1))

\* json.Unmarshal into a destination struct { X int `json:"x"` }: the one
\* body of the model that is valid JSON decodes to x = 1, the others are
\* rejected by the syntax check before the destination is touched.
ValidJSON(body) == body = "{\"x\":1}"

Unmarshal(body, dest) == IF ValidJSON(body) THEN 1 ELSE dest

(* --------------------------- string headers --------------------------- *)

\* len(b) of the bodies of the model.
StrLen(b) ==
    CASE b = "" -> 0
      [] b = "{\"x\":1}" -> 7
      [] b = "not found" -> 9

\* A string variable is two words: the pointer to its bytes (named here by
\* the string it points into, "" for the nil pointer of the empty string)
\* and its length.
StringHeader(b) == [ptr |-> b, len |-> StrLen(b)]

\* The run-time panic of a read through a nil pointer.
Fault == "nil pointer dereference"

\* The string a header reads as.  A header whose words come from two
\* assignments reads as a cut token, or as a token and the bytes that lie
\* behind it; with no bytes to read it faults.
Bytes(h) ==
    IF h.len = 0 THEN ""
    ELSE IF h.ptr = "" THEN Fault
    ELSE IF h.len = StrLen(h.ptr) THEN h.ptr
    ELSE IF h.len < StrLen(h.ptr) THEN "not fou"
    ELSE "{\"x\":1}.."

\* The store of one word of the header new into the variable h.
StoreWord(h, word, new) ==
    IF word = "ptr" THEN [h EXCEPT !.ptr = new.ptr] ELSE [h EXCEPT !.len = new.len]

(* ------------------------------ errors -------------------------------- *)

NoError == [type |-> "nil", wraps |-> "nil"]

\* fmt.Errorf("get yahoo crumb err: %w", err)
CrumbError(err) == [type |-> "get yahoo crumb err", wraps |-> err.type]

Error(type) == [type |-> type, wraps |-> "nil"]

NoRequest == [url |-> << >>, RawQuery |-> << >>, ctx |-> "none"]

\* A goroutine between two operations.  id and ret are the identifier and
\* the Backend value that GetBackend takes and returns and that SetBackend
\* takes.
IdleProc ==
    [pc |-> "idle", op |-> "none", id |-> "none", ret |-> Nil,
     \* Call(path, form, ctx, v) on the configuration s
     s |-> Nil, v |-> FALSE, dest |-> 0, req |-> NoRequest,
     \* the ctx argument; NewRequest called directly: its path, the URL built
     path |-> << >>, ctx |-> "none", target |-> << >>,
     \* Do: the value of yCrumb read by the test, the requests sent, the
     \* client and the context of each, the crumb getYahooCrumb returned
     seen |-> "none", sent |-> << >>, via |-> << >>, crumb |-> "",
     err |-> NoError, StatusCode |-> 0, Body |-> ""]

\* The answer of a step that does not talk to the transport.
NoAnswer == [kind |-> "none", status |-> 0, body |-> ""]

Event(p, step, a, rec) == [p |-> p, step |-> step, a |-> a, rec |-> rec]

\* The locals of an operation at its return.
Done(rec) == [rec EXCEPT !.pc = "done"]

\* A request as the transport gets it: through which client, with which
\* context.
Via(client, ctx) == [client |-> client, ctx |-> ctx]

\* The state after init(): sequential tells whether the caller runs the
\* operations one after the other, contexts which ctx arguments it passes,
\* built the configurations it has built itself.
Start(sequential, contexts, built) ==
    /\ httpClient = InitClient
    /\ heap = built
    /\ backends = [id \in Registered |-> Nil]
    /\ mu = [readers |-> 0, writer |-> 0]
    /\ yCrumb = StringHeader("")
    /\ proc = [p \in Procs |-> IdleProc]
    /\ ev = Event(0, "none", NoAnswer, IdleProc)
    /\ hist = [sequential |-> sequential, contexts |-> contexts, tokens |-> {},
               ops |-> 0, setBackend |-> FALSE, setClient |-> FALSE,
               made |-> [id \in Registered |-> 0],
               got |-> [id \in Registered |-> {}], writes |-> 0, rewrites |-> 0,
               lastSet |-> [id \in Registered |-> NeverSet]]

\* A goroutine starts an operation only between two operations.  Idle
\* goroutines are alike, so the one with the least number takes the next
\* operation.  When the caller runs the operations of the package one after
\* the other (hist.sequential), none starts while another is under way.
CanStart(p) ==
    /\ proc[p].pc = "idle"
    /\ \A q \in Procs : q < p => proc[q].pc # "idle"
    /\ hist.ops < (IF hist.sequential THEN SeqMaxOps ELSE MaxOps)
    /\ hist.sequential => \A q \in Procs : proc[q].pc = "idle"

Started == [hist EXCEPT !.ops = @ + 1]

(* ------------------------- SetHTTPClient ------------------------------ *)

SetHTTPClient(p) ==
    /\ CanStart(p)
    /\ \E c \in Clients :
        /\ httpClient' = c
    /\ ev' = Event(p, "return", NoAnswer,
                   Done([IdleProc EXCEPT !.op = "SetHTTPClient"]))
    /\ hist' = [Started EXCEPT !.setClient = TRUE]
    /\ UNCHANGED <<heap, backends, mu, yCrumb, proc>>

(* ---------------------------- GetBackend ------------------------------ *)

\* The switch of GetBackend: an unsupported identifier falls through to
\* "return nil"; a supported one goes for the read lock.
GetBackendBegin(p) ==
    /\ CanStart(p)
    /\ \E id \in BackendIds :
        LET rec == [IdleProc EXCEPT !.op = "GetBackend", !.id = id] IN
        IF id \in Registered
        THEN /\ proc' = [proc EXCEPT ![p] = [rec EXCEPT !.pc = "rlock"]]
             /\ ev' = ev
        ELSE /\ proc' = proc
             /\ ev' = Event(p, "return", NoAnswer, Done(rec))
    /\ hist' = Started
    /\ UNCHANGED <<httpClient, heap, backends, mu, yCrumb>>

\* backends.mu.RLock()
GetBackendRLock(p) ==
    /\ proc[p].pc = "rlock"
    /\ mu.writer = 0
    /\ mu' = [mu EXCEPT !.readers = @ + 1]
    /\ proc' = [proc EXCEPT ![p].pc = "rread"]
    /\ UNCHANGED <<httpClient, heap, backends, yCrumb, ev, hist>>

\* ret := backends.X; backends.mu.RUnlock(); if ret != nil { return ret }
GetBackendRead(p) ==
    /\ proc[p].pc = "rread"
    /\ mu' = [mu EXCEPT !.readers = @ - 1]
    /\ LET ret == backends[proc[p].id] IN
        IF ret # Nil
        THEN /\ proc' = [proc EXCEPT ![p] = IdleProc]
             /\ ev' = Event(p, "return", NoAnswer, Done([proc[p] EXCEPT !.ret = ret]))
             /\ hist' = [hist EXCEPT !.got[proc[p].id] = @ \cup {ret}]
        ELSE /\ proc' = [proc EXCEPT ![p].pc = "lock"]
             /\ UNCHANGED <<ev, hist>>
    /\ UNCHANGED <<httpClient, heap, backends, yCrumb>>

\* backends.mu.Lock()
GetBackendLock(p) ==
    /\ proc[p].pc = "lock"
    /\ mu.writer = 0
    /\ mu.readers = 0
    /\ mu' = [mu EXCEPT !.writer = p]
    /\ proc' = [proc EXCEPT ![p].pc = "store"]
    /\ UNCHANGED <<httpClient, heap, backends, yCrumb, ev, hist>>

\* backends.X = &BackendConfiguration{backend, url, httpClient};
\* return backends.X, then the deferred backends.mu.Unlock()
GetBackendStore(p) ==
    /\ proc[p].pc = "store"
    /\ Len(heap) < MaxObjs
    /\ LET id == proc[p].id IN
        /\ heap' = Append(heap, NewDefault(id, httpClient, hist.made[id]))
        /\ backends' = [backends EXCEPT ![id] = Len(heap) + 1]
        /\ proc' = [proc EXCEPT ![p] = IdleProc]
        /\ ev' = Event(p, "return", NoAnswer,
                       Done([proc[p] EXCEPT !.ret = Len(heap) + 1]))
        /\ hist' = [hist EXCEPT !.made[id] = @ + 1,
                                !.got[id] = @ \cup {Len(heap) + 1}]
    /\ mu' = [mu EXCEPT !.writer = 0]
    /\ UNCHANGED <<httpClient, yCrumb>>

(* ---------------------------- SetBackend ------------------------------ *)

\* A mutant of StoreBackend: an unsupported identifier falls into the last
\* case of the switch.
StoreBackendLastCase(reg, id, b) ==
    [reg EXCEPT ![IF id = YFinBackend THEN YFinBackend ELSE BATSBackend] = b]

\* A mutant of StoreBackend: an entry that is set is kept.
StoreBackendIfAbsent(reg, id, b) ==
    IF id \in Registered /\ reg[id] = Nil THEN [reg EXCEPT ![id] = b] ELSE reg

\* The switch of SetBackend: the registry after SetBackend(id, b).
StoreBackend(reg, id, b) ==
    IF id \in Registered THEN [reg EXCEPT ![id] = b] ELSE reg

\* The Backend values a caller can pass: nil, a configuration it holds, or
\* one it builds for the purpose.
SetBackend(p) ==
    /\ CanStart(p)
    /\ \E id \in BackendIds :
        \E b \in 0 .. (IF Len(heap) < MaxObjs THEN Len(heap) + 1 ELSE Len(heap)) :
            /\ IF b <= Len(heap)
               THEN heap' = heap
               ELSE \E t \in Registered :
                    heap' = Append(heap, BackendConfiguration(t, CallerURL, CallerClient))
            /\ backends' = StoreBackend(backends, id, b)
            /\ ev' = Event(p, "return", NoAnswer,
                    Done([IdleProc EXCEPT !.op = "SetBackend", !.id = id, !.ret = b]))
            /\ hist' = [Started EXCEPT !.setBackend = TRUE,
                    !.lastSet = IF id \in Registered THEN [@ EXCEPT ![id] = b] ELSE @]
    /\ UNCHANGED <<httpClient, mu, yCrumb, proc>>

(* ------------------------------- Call --------------------------------- *)

\* What HTTPClient.Do and the reading of the body can come to: a transport
\* error, a response whose body cannot be read to its end, or a response
\* with a status and a body.
Answers ==
    {[kind |-> "error", status |-> 0, body |-> ""]}
        \cup [kind : {"unreadable"}, status : Statuses, body : {""}]
        \cup [kind : {"response"}, status : Statuses, body : Bodies]

\* The answers to the request for the web root: its body is read and
\* dropped, so one body stands for all.
RootAnswers == {a \in Answers : a.body = ""}

Is2xx(status) == status >= 200 /\ status < 300

\* What a client answers to a request that carries the context ctx: the
\* transport gives up a request whose context is cancelled.
Transport(ctx) ==
    IF ctx = "cancelled" THEN {a \in Answers : a.kind = "error"} ELSE Answers

\* A mutant of NewRequestURL: the separator is put in front of every path.
NewRequestURLAlways(base, path) == base \o <<"/">> \o path

\* NewRequest: the URL handed to http.NewRequest.
NewRequestURL(base, path) ==
    base \o (IF HasPrefix(path) THEN path ELSE <<"/">> \o path)

\* A mutant of RequestContext: the ctx argument is dropped.
RequestContextDropped(ctx) == "background"

\* NewRequest: the context of the request, the one http.NewRequest gives
\* it unless the ctx argument is not nil.
RequestContext(ctx) == IF ctx = "nil" THEN "background" ELSE ctx

\* What NewRequest(path, ctx) returns on the configuration cfg.
NewRequestResult(cfg, path, ctx) ==
    LET u == NewRequestURL(cfg.URL, path) IN
    IF ParseOK(u)
    THEN [target |-> u, err |-> NoError,
          req |-> [url |-> ParseURL(u).url, RawQuery |-> ParseURL(u).RawQuery,
                   ctx |-> RequestContext(ctx)]]
    ELSE [target |-> u, err |-> Error("url.Error"), req |-> NoRequest]

\* NewRequest called by the caller itself on a configuration it holds.
NewRequest(p) ==
    /\ CanStart(p)
    /\ \E s \in 1 .. Len(heap), path \in PathInputs, ctx \in hist.contexts :
        LET r == NewRequestResult(heap[s], path, ctx) IN
        ev' = Event(p, "return", NoAnswer,
                    Done([IdleProc EXCEPT !.op = "NewRequest", !.s = s,
                            !.path = path, !.ctx = ctx, !.target = r.target,
                            !.req = r.req, !.err = r.err]))
    /\ hist' = Started
    /\ UNCHANGED <<httpClient, heap, backends, mu, yCrumb, proc>>

\* Call up to the return of NewRequest: the form is appended to the path,
\* the request is built, and a URL that does not parse ends the call.
CallBegin(p) ==
    /\ CanStart(p)
    /\ \E s \in 1 .. Len(heap), path \in Paths, form \in Forms,
          ctx \in hist.contexts, v \in BOOLEAN :
        LET full == IF ~FormEmpty(form)
                    THEN path \o <<"?">> \o FormEncode(form) ELSE path
            r == NewRequestResult(heap[s], full, ctx)
            call == [IdleProc EXCEPT !.op = "Call", !.s = s, !.v = v, !.ctx = ctx]
        IN IF r.err = NoError
           THEN /\ proc' = [proc EXCEPT ![p] =
                            [call EXCEPT !.req = r.req, !.pc = "do"]]
                /\ ev' = ev
           ELSE /\ proc' = proc
                /\ ev' = Event(p, "return", NoAnswer,
                               Done([call EXCEPT !.err = r.err]))
    /\ hist' = Started
    /\ UNCHANGED <<httpClient, heap, backends, mu, yCrumb>>

\* A mutant of NeedCrumb: the handshake runs whatever the cache holds.
NeedCrumbAlways(cached) == TRUE

\* if yCrumb == ""
NeedCrumb(cached) == cached = ""

\* A mutant of RequiresCrumb: every backend takes the token.
RequiresCrumbAlways(type) == TRUE

\* if s.Type == YFinBackend
RequiresCrumb(type) == type = YFinBackend

\* Do, the tests of s.Type and of the token cache.
DoCheck(p) ==
    /\ proc[p].pc = "do"
    /\ proc' = [proc EXCEPT ![p] =
            IF RequiresCrumb(heap[proc[p].s].Type)
            THEN [@ EXCEPT !.seen = Bytes(yCrumb),
                           !.pc = IF NeedCrumb(Bytes(yCrumb)) THEN "root"
                                  ELSE "inject"]
            ELSE [@ EXCEPT !.pc = "exec"]]
    /\ UNCHANGED <<httpClient, heap, backends, mu, yCrumb, ev, hist>>

\* A mutant of HandshakeContext: the handshake takes the caller's context.
HandshakeContextCaller(ctx) == ctx

\* getYahooCrumb builds its requests with http.NewRequest and is not
\* given the request of the call: they carry the background context.
HandshakeContext(ctx) == "background"

\* A mutant of HandshakeRoot: a failed request to the web root is tried again.
HandshakeRootRetry(p) ==
    /\ proc[p].pc = "root"
    /\ \E a \in RootAnswers :
        LET rec == [proc[p] EXCEPT !.sent = Append(@, "root"),
                        !.via = Append(@, Via(heap[proc[p].s].HTTPClient,
                                    HandshakeContext(proc[p].req.ctx)))] IN
        /\ proc' = [proc EXCEPT ![p] =
                [rec EXCEPT !.pc = IF a.kind = "error" THEN "root" ELSE "token"]]
        /\ ev' = Event(p, "root", a, rec)
    /\ UNCHANGED <<httpClient, heap, backends, mu, yCrumb, hist>>

\* getYahooCrumb(s.HTTPClient), the request to the web root: only a
\* transport error ends the handshake; the status is not looked at and the
\* body is dropped.
HandshakeRoot(p) ==
    /\ proc[p].pc = "root"
    /\ \E a \in RootAnswers \cap Transport(HandshakeContext(proc[p].req.ctx)) :
        LET rec == [proc[p] EXCEPT !.sent = Append(@, "root"),
                        !.via = Append(@, Via(heap[proc[p].s].HTTPClient,
                                    HandshakeContext(proc[p].req.ctx)))] IN
        IF a.kind = "error"
        THEN /\ proc' = [proc EXCEPT ![p] = IdleProc]
             /\ ev' = Event(p, "root", a,
                    Done([rec EXCEPT !.err = CrumbError(Error("transport"))]))
        ELSE /\ proc' = [proc EXCEPT ![p] = [rec EXCEPT !.pc = "token"]]
             /\ ev' = Event(p, "root", a, rec)
    /\ UNCHANGED <<httpClient, heap, backends, mu, yCrumb, hist>>

\* A mutant of CrumbResult: the errors of the token request are dropped.
CrumbResultIgnoreError(a) == [crumb |-> a.body, err |-> NoError]

\* What getYahooCrumb returns for the answer of the token endpoint.
CrumbResult(a) ==
    IF a.kind = "error" THEN [crumb |-> "", err |-> Error("transport")]
    ELSE IF a.kind = "unreadable" THEN [crumb |-> "", err |-> Error("read")]
    ELSE [crumb |-> a.body, err |-> NoError]

\* A mutant of TokenClient: the token is asked for through the package's
\* client.
TokenClientGlobal(client, global) == global

\* The client of the request to the token endpoint: the parameter client
\* of getYahooCrumb, which the request to the web root went through.
TokenClient(client, global) == client

\* getYahooCrumb, the request to the token endpoint, up to its return.
HandshakeToken(p) ==
    /\ proc[p].pc = "token"
    /\ \E a \in Transport(HandshakeContext(proc[p].req.ctx)) :
        LET r == CrumbResult(a)
            rec == [proc[p] EXCEPT !.sent = Append(@, "token"),
                        !.via = Append(@, Via(
                                    TokenClient(proc[p].via[1].client, httpClient),
                                    HandshakeContext(proc[p].req.ctx)))]
        IN
        IF r.err # NoError
        THEN /\ proc' = [proc EXCEPT ![p] = IdleProc]
             /\ ev' = Event(p, "token", a,
                            Done([rec EXCEPT !.err = CrumbError(r.err)]))
             /\ hist' = hist
        ELSE /\ proc' = [proc EXCEPT ![p] =
                            [rec EXCEPT !.pc = "assign", !.crumb = r.crumb]]
             /\ ev' = Event(p, "token", a, [rec EXCEPT !.crumb = r.crumb])
             /\ hist' = [hist EXCEPT !.tokens = @ \cup {r.crumb}]
    /\ UNCHANGED <<httpClient, heap, backends, mu, yCrumb>>

\* yCrumb = crumb, the store of the first word: the assignment of a string
\* is two stores, in the order the build gives them, and another goroutine
\* can run between them.
AssignFirst(p) ==
    /\ proc[p].pc = "assign"
    /\ \E word \in {"ptr", "len"} :
        /\ yCrumb' = StoreWord(yCrumb, word, StringHeader(proc[p].crumb))
        /\ proc' = [proc EXCEPT ![p].pc = IF word = "ptr" THEN "assignLen"
                                            ELSE "assignPtr"]
    /\ hist' = [hist EXCEPT !.writes = @ + 1,
                    !.rewrites = IF Bytes(yCrumb) # "" THEN @ + 1 ELSE @]
    /\ UNCHANGED <<httpClient, heap, backends, mu, ev>>

\* yCrumb = crumb, the store of the other word.
AssignSecond(p) ==
    /\ proc[p].pc \in {"assignLen", "assignPtr"}
    /\ yCrumb' = StoreWord(yCrumb, IF proc[p].pc = "assignLen" THEN "len" ELSE "ptr",
                           StringHeader(proc[p].crumb))
    /\ proc' = [proc EXCEPT ![p].pc = "inject"]
    /\ UNCHANGED <<httpClient, heap, backends, mu, ev, hist>>

\* query.Add("crumb", yCrumb); req.URL.RawQuery = query.Encode().  The
\* read of a header with a length and no bytes panics, and the goroutine
\* goes no further.
Inject(p) ==
    /\ proc[p].pc = "inject"
    /\ proc' = IF Bytes(yCrumb) = Fault
               THEN [proc EXCEPT ![p].pc = "fault"]
               ELSE [proc EXCEPT ![p].pc = "exec",
                        ![p].req.RawQuery =
                            Encode(Append(Query(@), <<"crumb", Bytes(yCrumb)>>))]
    /\ UNCHANGED <<httpClient, heap, backends, mu, yCrumb, ev, hist>>

\* A mutant of DoResult: only a status above 400 is a failure.
DoResultAbove400(a, v, dest) ==
    IF a.kind = "error"
    THEN [err |-> Error("transport"), StatusCode |-> 0, Body |-> "", dest |-> dest]
    ELSE IF a.kind = "unreadable"
    THEN [err |-> Error("read"), StatusCode |-> 0, Body |-> "", dest |-> dest]
    ELSE IF a.status > 400
    THEN [err |-> Error("RemoteError"), StatusCode |-> a.status,
          Body |-> a.body, dest |-> dest]
    ELSE IF v
    THEN [err |-> IF ValidJSON(a.body) THEN NoError ELSE Error("json.SyntaxError"),
          StatusCode |-> 0, Body |-> "", dest |-> Unmarshal(a.body, dest)]
    ELSE [err |-> NoError, StatusCode |-> 0, Body |-> "", dest |-> dest]

\* A mutant of DoResult: the decoder's error is wrapped.
DoResultWrap(a, v, dest) ==
    IF a.kind = "error"
    THEN [err |-> Error("transport"), StatusCode |-> 0, Body |-> "", dest |-> dest]
    ELSE IF a.kind = "unreadable"
    THEN [err |-> Error("read"), StatusCode |-> 0, Body |-> "", dest |-> dest]
    ELSE IF a.status >= 400
    THEN [err |-> Error("RemoteError"), StatusCode |-> a.status,
          Body |-> a.body, dest |-> dest]
    ELSE IF v
    THEN [err |-> IF ValidJSON(a.body) THEN NoError
                  ELSE [type |-> "decode", wraps |-> "json.SyntaxError"],
          StatusCode |-> 0, Body |-> "", dest |-> Unmarshal(a.body, dest)]
    ELSE [err |-> NoError, StatusCode |-> 0, Body |-> "", dest |-> dest]

\* A mutant of DoResult: a body that does not decode is passed over.
DoResultSwallow(a, v, dest) ==
    IF a.kind = "error"
    THEN [err |-> Error("transport"), StatusCode |-> 0, Body |-> "", dest |-> dest]
    ELSE IF a.kind = "unreadable"
    THEN [err |-> Error("read"), StatusCode |-> 0, Body |-> "", dest |-> dest]
    ELSE IF a.status >= 400
    THEN [err |-> Error("RemoteError"), StatusCode |-> a.status,
          Body |-> a.body, dest |-> dest]
    ELSE [err |-> NoError, StatusCode |-> 0, Body |-> "",
          dest |-> IF v THEN Unmarshal(a.body, dest) ELSE dest]

\* A mutant of DoResult: the status is looked at before the body is read.
DoResultStatusFirst(a, v, dest) ==
    IF a.kind = "error"
    THEN [err |-> Error("transport"), StatusCode |-> 0, Body |-> "", dest |-> dest]
    ELSE IF a.status >= 400
    THEN [err |-> Error("RemoteError"), StatusCode |-> a.status,
          Body |-> a.body, dest |-> dest]
    ELSE IF a.kind = "unreadable"
    THEN [err |-> Error("read"), StatusCode |-> 0, Body |-> "", dest |-> dest]
    ELSE IF v
    THEN [err |-> IF ValidJSON(a.body) THEN NoError ELSE Error("json.SyntaxError"),
          StatusCode |-> 0, Body |-> "", dest |-> Unmarshal(a.body, dest)]
    ELSE [err |-> NoError, StatusCode |-> 0, Body |-> "", dest |-> dest]

\* What Do returns, and leaves in the destination, for the answer to the
\* business request.
DoResult(a, v, dest) ==
    IF a.kind = "error"
    THEN [err |-> Error("transport"), StatusCode |-> 0, Body |-> "", dest |-> dest]
    ELSE IF a.kind = "unreadable"
    THEN [err |-> Error("read"), StatusCode |-> 0, Body |-> "", dest |-> dest]
    ELSE IF a.status >= 400
    THEN [err |-> Error("RemoteError"), StatusCode |-> a.status,
          Body |-> a.body, dest |-> dest]
    ELSE IF v
    THEN [err |-> IF ValidJSON(a.body) THEN NoError ELSE Error("json.SyntaxError"),
          StatusCode |-> 0, Body |-> "", dest |-> Unmarshal(a.body, dest)]
    ELSE [err |-> NoError, StatusCode |-> 0, Body |-> "", dest |-> dest]

\* s.HTTPClient.Do(req) and the rest of Do.
Execute(p) ==
    /\ proc[p].pc = "exec"
    /\ \E a \in Transport(proc[p].req.ctx) :
        LET r == DoResult(a, proc[p].v, proc[p].dest) IN
        ev' = Event(p, "biz", a,
                    Done([proc[p] EXCEPT !.sent = Append(@, "biz"),
                                         !.via = Append(@,
                                            Via(heap[proc[p].s].HTTPClient,
                                                proc[p].req.ctx)),
                                         !.err = r.err,
                                         !.StatusCode = r.StatusCode,
                                         !.Body = r.Body,
                                         !.dest = r.dest]))
    /\ proc' = [proc EXCEPT ![p] = IdleProc]
    /\ UNCHANGED <<httpClient, heap, backends, mu, yCrumb, hist>>

\* One step of goroutine p.
Step(p) ==
    \/ SetHTTPClient(p)
    \/ GetBackendBegin(p)
    \/ GetBackendRLock(p)
    \/ GetBackendRead(p)
    \/ GetBackendLock(p)
    \/ GetBackendStore(p)
    \/ SetBackend(p)
    \/ CallBegin(p)
    \/ DoCheck(p)
    \/ HandshakeRoot(p)
    \/ HandshakeToken(p)
    \/ AssignFirst(p)
    \/ AssignSecond(p)
    \/ Inject(p)
    \/ Execute(p)

Next == \E p \in Procs : Step(p)

\* Goroutines interleave freely; no call is given a context.
Init == Start(FALSE, {"nil"}, << >>)

Spec == Init /\ [][Next]_vars

\* The operations of the package run one after the other.
SeqInit == Start(TRUE, {"nil"}, << >>)

SeqSpec == SeqInit /\ [][Next]_vars

\* The operations run one after the other and the calls are given any
\* context.
CtxInit == Start(TRUE, Contexts, << >>)

CtxSpec == CtxInit /\ [][Next]_vars

\* NewRequest alone, on a configuration the caller built with any base URL.
UrlNext == \E p \in Procs : NewRequest(p)

UrlInit ==
    \E base \in Bases :
        Start(TRUE, Contexts, <<BackendConfiguration(BATSBackend, base, CallerClient)>>)

UrlSpec == UrlInit /\ [][UrlNext]_vars

(* ------------------------------ claims -------------------------------- *)

\* The locals of the operations under way and of the last one to return.
Recs == {proc[p] : p \in Procs} \cup {ev.rec}

\* How many times x occurs in seq.
Count(seq, x) == Cardinality({i \in 1 .. Len(seq) : seq[i] = x})

\* The crumb parameters of a request.
CrumbParams(req) == SelectSeq(Query(req.RawQuery), LAMBDA t : t[1] = "crumb")

\* The last event is the return of a Call.
CallReturned == ev.rec.op = "Call" /\ ev.rec.pc = "done"

\* The last event is an answer of the transport to the business request
\* that carries a status.
BizResponse == ev.step = "biz" /\ ev.a.kind \in {"response", "unreadable"}

\* No SetBackend and no SetHTTPClient so far.
Untouched == ~hist.setBackend /\ ~hist.setClient

\* C1: with no SetBackend call, however GetBackend(id) calls interleave,
\* one default configuration is constructed for id and every caller
\* receives that one object.
C1_SingleDefault ==
    ~hist.setBackend =>
        \A id \in Registered :
            hist.made[id] <= 1 /\ Cardinality(hist.got[id]) <= 1

\* C2: with no SetBackend and no SetHTTPClient call, all configurations
\* that GetBackend(id) calls return have equal Type, URL and HTTPClient.
C2_EqualFields ==
    Untouched =>
        \A id \in Registered : \A x, y \in hist.got[id] :
            /\ heap[x].Type = heap[y].Type
            /\ heap[x].URL = heap[y].URL
            /\ heap[x].HTTPClient = heap[y].HTTPClient
            /\ heap[x].Type = id
            /\ heap[x].URL = DefaultURL(id)
            /\ heap[x].HTTPClient = InitClient

\* C2 witness: two concurrent GetBackend calls for one id have returned
\* two configuration objects.
C2_Witness ==
    Untouched /\ \E id \in Registered : Cardinality(hist.got[id]) = 2

\* C3, as claimed: every response to the business request with a status of
\* 400 or more makes Call return a RemoteError with that status and body,
\* the destination unchanged.
C3_RemoteErrorAlways ==
    (BizResponse /\ ev.a.status >= 400) =>
        /\ ev.rec.err = Error("RemoteError")
        /\ ev.rec.StatusCode = ev.a.status
        /\ ev.rec.Body = ev.a.body
        /\ ev.rec.dest = IdleProc.dest

\* C3, amended: the same when the body was read to its end; when reading
\* the body fails Call returns the read error, and in both cases nothing is
\* decoded and the destination is unchanged.
C3_RemoteErrorWhenRead ==
    (BizResponse /\ ev.a.status >= 400) =>
        /\ ev.rec.pc = "done"
        /\ ev.rec.dest = IdleProc.dest
        /\ IF ev.a.kind = "response"
           THEN /\ ev.rec.err = Error("RemoteError")
                /\ ev.rec.StatusCode = ev.a.status
                /\ ev.rec.Body = ev.a.body
           ELSE ev.rec.err = Error("read")

\* C3 witness: a 404 with a body that would decode, a destination given.
C3_Witness ==
    /\ BizResponse /\ ev.a.kind = "response"
    /\ ev.a.status = 404 /\ ValidJSON(ev.a.body) /\ ev.rec.v
    /\ ev.rec.err = Error("RemoteError")

\* C4, as claimed: every response with a status below 400 is decoded into
\* the destination if one was given (nil error exactly when the body
\* decodes, else the decoder's own error), and gives nil without decoding
\* if none was given.
C4_DecodedAlways ==
    (BizResponse /\ ev.a.status < 400) =>
        IF ev.rec.v
        THEN /\ ev.rec.dest = Unmarshal(ev.a.body, IdleProc.dest)
             /\ ev.rec.err = IF ValidJSON(ev.a.body) THEN NoError
                             ELSE Error("json.SyntaxError")
        ELSE ev.rec.err = NoError /\ ev.rec.dest = IdleProc.dest

\* C4, amended: the same when the body was read to its end; when reading
\* the body fails Call returns the read error and decodes nothing.
C4_DecodedWhenRead ==
    (BizResponse /\ ev.a.status < 400) =>
        /\ ev.rec.pc = "done"
        /\ IF ev.a.kind = "unreadable"
           THEN ev.rec.err = Error("read") /\ ev.rec.dest = IdleProc.dest
           ELSE IF ev.rec.v
           THEN /\ ev.rec.dest = Unmarshal(ev.a.body, IdleProc.dest)
                /\ ev.rec.err = IF ValidJSON(ev.a.body) THEN NoError
                                ELSE Error("json.SyntaxError")
           ELSE ev.rec.err = NoError /\ ev.rec.dest = IdleProc.dest

\* C4 witness: a 200 whose body does not decode, a destination given.
C4_Witness ==
    /\ BizResponse /\ ev.a.kind = "response" /\ ev.a.status = 200
    /\ ev.rec.v /\ ~ValidJSON(ev.a.body)
    /\ ev.rec.err = Error("json.SyntaxError")

\* C5: in sequential use, a Call on a yahoo configuration that finds a
\* non-empty token cached sends nothing to the two handshake endpoints and
\* injects exactly the cached token; the cached token is never assigned
\* again, whatever the calls in between came to.
C5_CachedTokenReused ==
    /\ hist.rewrites = 0
    /\ \A rec \in Recs :
        (rec.op = "Call" /\ rec.seen \notin {"none", ""}) =>
            /\ Count(rec.sent, "root") = 0
            /\ Count(rec.sent, "token") = 0
            /\ rec.seen = Bytes(yCrumb)
            /\ rec.pc \in {"exec", "done"} =>
                    CrumbParams(rec.req) = << <<"crumb", Bytes(yCrumb)>> >>

\* C5 witness: after the one handshake, a Call that found the token cached
\* has sent the business request alone and got a 400 for it.
C5_Witness ==
    /\ CallReturned
    /\ ev.rec.seen \notin {"none", ""}
    /\ ev.rec.sent = <<"biz">>
    /\ ev.a.status = 400
    /\ hist.writes = 1

\* C6: in sequential use, a transport error at either handshake step makes
\* Call return the wrapped error without sending the business request, the
\* cache stays empty, and the next Call starts the handshake at the web
\* root.
C6_HandshakeTransportError ==
    (ev.step \in {"root", "token"} /\ ev.a.kind = "error") =>
        /\ ev.rec.pc = "done"
        /\ ev.rec.err = CrumbError(Error("transport"))
        /\ Count(ev.rec.sent, "biz") = 0
        /\ Bytes(yCrumb) = ""
        /\ \A p \in Procs :
            (proc[p].op = "Call" /\ proc[p].seen # "none") =>
                proc[p].pc = "root" /\ proc[p].sent = << >>

\* C6 witness: after a Call that failed at the token endpoint, the next
\* Call is about to send the request to the web root.
C6_Witness ==
    /\ ev.step = "token" /\ ev.a.kind = "error"
    /\ \E p \in Procs : proc[p].op = "Call" /\ proc[p].pc = "root"

\* C7: a response outside 2xx at either handshake step makes Call return
\* a handshake error, no business request is sent and the cache stays
\* empty.
C7_Non2xxAborts ==
    (ev.step \in {"root", "token"} /\ ev.a.kind = "response"
        /\ ~Is2xx(ev.a.status)) =>
        /\ ev.rec.pc = "done"
        /\ ev.rec.err.type = "get yahoo crumb err"
        /\ Bytes(yCrumb) = ""

\* C8, as claimed: a non-empty cache is never assigned again.
C8_NeverAssignedAgain == hist.rewrites = 0

\* C8, amended: the cache is assigned only by a Call that read it empty at
\* its own test of yCrumb; a Call that read it non-empty runs no handshake.
C8_AssignedOnlyIfSeenEmpty ==
    /\ \A p \in Procs :
        proc[p].pc \in {"root", "token", "assign", "assignLen", "assignPtr"} =>
            proc[p].seen = ""
    /\ (ev.step = "token" /\ ev.rec.pc # "done") => ev.rec.seen = ""
    /\ hist.writes > 0 => hist.rewrites < hist.writes

\* C8 witness: a Call that read the cache empty has assigned it when it
\* was no longer empty.
C8_Witness ==
    hist.rewrites > 0 /\ ev.step = "token" /\ ev.rec.seen = ""

\* How a Call ended, by the error it returned.
Outcome(rec) ==
    CASE rec.err = NoError -> "Decoded"
      [] rec.err = Error("RemoteError") -> "RemoteFailure"
      [] rec.err = Error("transport") -> "TransportFailure"
      [] rec.err = Error("json.SyntaxError") -> "DecodeFailure"
      [] rec.err = Error("read") -> "BodyReadFailure"
      [] rec.err = Error("url.Error") -> "ConstructionFailure"
      [] rec.err.type = "get yahoo crumb err" -> "HandshakeFailure"
      [] OTHER -> "Other"

\* Executed is never reached before RequestBuilt.
BuiltBeforeExecuted ==
    \A rec \in Recs :
        (rec.op = "Call" /\ (rec.sent # << >> \/ rec.pc \notin {"idle", "done"}))
            => rec.req # NoRequest

\* C9, as claimed: a Call ends in one of the four outcomes, and a request
\* is built before it is executed.
C9_FourOutcomes ==
    /\ BuiltBeforeExecuted
    /\ CallReturned => Outcome(ev.rec) \in
            {"Decoded", "RemoteFailure", "TransportFailure", "DecodeFailure"}

\* C9, amended: a Call ends in one of seven outcomes: the four, reached by
\* the answer to the business request that the claim names, or a failure
\* to read the body, to build the request or to get the token; the last
\* two end the Call before the business request is sent.
C9_SevenOutcomes ==
    /\ BuiltBeforeExecuted
    /\ CallReturned =>
        LET o == Outcome(ev.rec) a == ev.a sent == Count(ev.rec.sent, "biz") = 1 IN
        /\ o \in {"Decoded", "RemoteFailure", "TransportFailure", "DecodeFailure",
                  "BodyReadFailure", "ConstructionFailure", "HandshakeFailure"}
        /\ o = "ConstructionFailure" <=> ev.rec.req = NoRequest
        /\ o = "ConstructionFailure" => ev.rec.sent = << >>
        /\ o = "HandshakeFailure" <=> ev.step \in {"root", "token"}
        /\ o = "HandshakeFailure" => ~sent
        /\ o = "TransportFailure" <=> (sent /\ a.kind = "error")
        /\ o = "BodyReadFailure" <=> (sent /\ a.kind = "unreadable")
        /\ o = "RemoteFailure" <=> (sent /\ a.kind = "response" /\ a.status >= 400)
        /\ o = "DecodeFailure" <=>
                (sent /\ a.kind = "response" /\ a.status < 400
                    /\ ev.rec.v /\ ~ValidJSON(a.body))
        /\ o = "Decoded" <=>
                (sent /\ a.kind = "response" /\ a.status < 400
                    /\ (ev.rec.v => ValidJSON(a.body)))

\* C9 witness: a Call has ended with a handshake failure.
C9_Witness == CallReturned /\ Outcome(ev.rec) = "HandshakeFailure"

\* C10: a Call sends each of the web-root request, the token request and
\* the business request at most once, three requests at most.
C10_NoRetry ==
    \A rec \in Recs :
        /\ Count(rec.sent, "root") <= 1
        /\ Count(rec.sent, "token") <= 1
        /\ Count(rec.sent, "biz") <= 1
        /\ Len(rec.sent) <= 3

\* C10 witness: a Call has returned after a failed business request that
\* followed a full handshake.
C10_Witness ==
    /\ CallReturned
    /\ ev.rec.sent = <<"root", "token", "biz">>
    /\ ev.rec.err # NoError

\* A step in which an operation that takes no further step (SetHTTPClient,
\* SetBackend, GetBackend of an unsupported identifier, a Call whose
\* request cannot be built) starts and returns.
ReturnsAtOnce == hist'.ops = hist.ops + 1 /\ proc' = proc

\* C12: GetBackend of an identifier that is neither yahoo nor bats returns
\* nil, takes no lock and leaves the registry as it is; SetBackend of such
\* an identifier leaves both entries as they are.
C12_UnknownId ==
    [][/\ \A p \in Procs :
            proc'[p].op = "GetBackend" => proc'[p].id \in Registered
       /\ (ReturnsAtOnce /\ ev'.rec.id = OtherBackend
                /\ ev'.rec.op \in {"GetBackend", "SetBackend"}) =>
            /\ backends' = backends
            /\ mu' = mu
            /\ ev'.rec.op = "GetBackend" => (ev'.rec.ret = Nil /\ heap' = heap)]_vars

\* C12 witness: SetBackend of the unsupported identifier with a backend
\* that is not nil has returned, with an entry of the registry set.
C12_Witness ==
    /\ ev.rec.op = "SetBackend" /\ ev.rec.id = OtherBackend /\ ev.rec.ret # Nil
    /\ \E id \in Registered : backends[id] # Nil

\* C13: a RemoteError, bare or wrapped, is returned only by a Call whose
\* business request was answered by a response with a status of 400 or
\* more that was read to its end; it carries that status.
C13_RemoteErrorOnlyOnStatus ==
    \A rec \in Recs :
        (rec.err.type = "RemoteError" \/ rec.err.wraps = "RemoteError") =>
            /\ rec = ev.rec
            /\ CallReturned
            /\ ev.step = "biz"
            /\ ev.a.kind = "response"
            /\ ev.a.status >= 400
            /\ rec.StatusCode = ev.a.status

\* C13 witness: a Call has returned a RemoteError for a status of 404, the
\* handshake done.
C13_Witness ==
    CallReturned /\ ev.rec.err = Error("RemoteError") /\ ev.a.status = 404
    /\ ev.rec.sent = <<"root", "token", "biz">>

\* The step in which goroutine p returns from GetBackend of a supported
\* identifier.
GetBackendReturns(p) ==
    proc[p].op = "GetBackend" /\ proc[p].pc # "idle" /\ proc'[p].pc = "idle"

\* C14: in sequential use GetBackend(id) returns the backend of the last
\* SetBackend(id, b) if b was not nil, and constructs nothing; SetBackend
\* puts b in the entry of id whatever it held and leaves the other entry.
C14_LastSetWins ==
    [][/\ \A p \in Procs :
            (GetBackendReturns(p)
                /\ hist.lastSet[proc[p].id] \notin {NeverSet, Nil}) =>
                /\ ev'.rec.ret = hist.lastSet[proc[p].id]
                /\ heap' = heap
                /\ backends' = backends
       /\ (ReturnsAtOnce /\ ev'.rec.op = "SetBackend") =>
            \A id \in Registered :
                backends'[id] = IF id = ev'.rec.id THEN ev'.rec.ret
                                ELSE backends[id]]_vars

\* C14 witness: GetBackend has returned the backend that SetBackend put in
\* the place of a default configuration.
C14_Witness ==
    /\ ev.rec.op = "GetBackend" /\ ev.rec.pc = "done"
    /\ ev.rec.id \in Registered
    /\ hist.made[ev.rec.id] = 1
    /\ ev.rec.ret # Nil
    /\ ev.rec.ret = hist.lastSet[ev.rec.id]
    /\ heap[ev.rec.ret].URL = CallerURL

\* C15: an entry of the registry that is set is changed by SetBackend
\* alone, and no configuration object is changed once it is constructed.
C15_OnlySetBackendChangesEntry ==
    [][/\ \A id \in Registered :
            (backends[id] # Nil /\ backends'[id] # backends[id]) =>
                (ReturnsAtOnce /\ ev'.rec.op = "SetBackend" /\ ev'.rec.id = id)
       /\ \A i \in 1 .. Len(heap) : i <= Len(heap') /\ heap'[i] = heap[i]]_vars

\* C16: a Call on a configuration of another Type than yahoo sends nothing
\* to the handshake endpoints, neither reads nor assigns the token cache
\* and sends its business request with no crumb parameter; a Call on a
\* yahoo configuration that gets to send its business request has read
\* the cache and sends one crumb parameter.
C16_CrumbOnlyForYahoo ==
    /\ \A rec \in Recs :
        rec.op = "Call" =>
            IF heap[rec.s].Type # YFinBackend
            THEN /\ rec.seen = "none"
                 /\ rec.pc \notin {"root", "token", "inject"}
                 /\ Count(rec.sent, "root") = 0
                 /\ Count(rec.sent, "token") = 0
                 /\ CrumbParams(rec.req) = << >>
            ELSE (rec.pc = "exec" \/ Count(rec.sent, "biz") = 1) =>
                    rec.seen # "none" /\ Len(CrumbParams(rec.req)) = 1
    /\ ev.step \in {"root", "token"} => heap[ev.rec.s].Type = YFinBackend

\* C16 witness: a Call on a bats configuration has sent its business
\* request alone, got a response and returned.
C16_Witness ==
    /\ CallReturned
    /\ heap[ev.rec.s].Type = BATSBackend
    /\ ev.rec.sent = <<"biz">>
    /\ ev.step = "biz" /\ ev.a.kind = "response"
    /\ Bytes(yCrumb) = ""

\* C17: as long as every handshake has returned a token that is not empty,
\* under every interleaving each business request of a yahoo Call carries
\* one crumb, equal to a token some handshake had returned before; and
\* when all Calls are over the cache holds such a token.
C17_CrumbIsAToken ==
    "" \notin hist.tokens =>
        /\ \A rec \in Recs :
            (rec.op = "Call" /\ heap[rec.s].Type = YFinBackend
                /\ (rec.pc = "exec" \/ Count(rec.sent, "biz") = 1)) =>
                /\ Len(CrumbParams(rec.req)) = 1
                /\ CrumbParams(rec.req)[1][2] \in hist.tokens
        /\ (hist.writes > 0 /\ \A p \in Procs : proc[p].pc = "idle") =>
                Bytes(yCrumb) \in hist.tokens

\* The requests a Call sends, in the order it sends them.
SendOrder == <<"root", "token", "biz">>

C11_SeparatorOnce ==
    \A rec \in Recs :
        rec.op = "NewRequest" =>
            LET base == heap[rec.s].URL
                n == Len(rec.target)
                b == Len(base)
                k == Len(rec.path)
            IN /\ n >= b + k
               /\ SubSeq(rec.target, 1, b) = base
               /\ SubSeq(rec.target, n - k + 1, n) = rec.path
               /\ SubSeq(rec.target, b + 1, n - k) =
                    IF k > 0 /\ rec.path[1] = "/" THEN << >> ELSE <<"/">>
               /\ rec.err = NoError => rec.req.url = rec.target

\* C11 witness: NewRequest has built requests for a path with the
\* separator in front on a base URL without one at its end.
C11_Witness ==
    /\ ev.rec.op = "NewRequest"
    /\ ev.rec.err = NoError
    /\ ev.rec.path = <<"/", "quote">>
    /\ ev.rec.target = <<"http://stub", "/", "quote">>

\* C18: the request of a Call carries the context of the caller, or the
\* background context if the caller gave none; a business request whose
\* context is cancelled before it is sent gets no response; and a Call with
\* a context whose business request fails in the transport returns the
\* transport's error as it is, with nothing decoded and the destination as
\* it was.
C18_CancelledContext ==
    /\ \A rec \in Recs :
        (rec.op = "Call" /\ rec.req # NoRequest) =>
            /\ rec.req.ctx = IF rec.ctx = "nil" THEN "background" ELSE rec.ctx
            /\ \A i \in 1 .. Len(rec.sent) :
                    rec.sent[i] = "biz" => rec.via[i].ctx = rec.req.ctx
    /\ (CallReturned /\ ev.step = "biz" /\ ev.rec.ctx = "cancelled") =>
            ev.a.kind = "error"
    /\ (CallReturned /\ ev.step = "biz" /\ ev.rec.ctx # "nil"
            /\ ev.a.kind = "error") =>
            /\ ev.rec.err = Error("transport")
            /\ ev.rec.dest = IdleProc.dest
            /\ ev.rec.StatusCode = 0 /\ ev.rec.Body = ""

\* C18 witness: a Call given a cancelled context and a destination has
\* sent its business request and returned the transport's error.
C18_Witness ==
    /\ CallReturned /\ ev.step = "biz"
    /\ ev.rec.ctx = "cancelled" /\ ev.rec.v
    /\ ev.rec.err = Error("transport")

\* The goroutine is between the two stores of an assignment of yCrumb.
Assigning(p) == proc[p].pc \in {"assignLen", "assignPtr"}

\* C20: the requests of the handshake carry the background context
\* whatever context the caller gave; a Call with a cancelled context that
\* found the cache empty and got to its business request has sent both
\* handshake requests before, fails with the transport's error and leaves
\* its token in the cache; in sequential use a token that is not empty,
\* once cached, is assigned no second time.
C20_HandshakeIgnoresContext ==
    /\ \A rec \in Recs :
        rec.op = "Call" =>
            \A i \in 1 .. Len(rec.sent) :
                rec.sent[i] \in {"root", "token"} => rec.via[i].ctx = "background"
    /\ (CallReturned /\ ev.step = "biz" /\ ev.rec.ctx = "cancelled"
            /\ ev.rec.seen = "") =>
            /\ ev.rec.sent = SendOrder
            /\ ev.a.kind = "error"
            /\ ev.rec.err = Error("transport")
            /\ yCrumb = StringHeader(ev.rec.crumb)
    /\ (hist.writes >= 1 /\ "" \notin hist.tokens
            /\ \A p \in Procs : ~Assigning(p)) =>
            /\ hist.writes = 1
            /\ Bytes(yCrumb) \in hist.tokens

\* C20 witness: a Call with a cancelled context has run the handshake,
\* failed at its business request and left a token in the cache.
C20_Witness ==
    /\ CallReturned /\ ev.step = "biz"
    /\ ev.rec.ctx = "cancelled"
    /\ ev.rec.sent = SendOrder
    /\ ev.rec.crumb = "not found"
    /\ Bytes(yCrumb) = ev.rec.crumb

====
